---- MODULE Spec2Model ----
(***************************************************************************)
(* ListingRadar: momentum scoring (src/src/scoring/engine.py) and alert    *)
(* gating (src/src/alerts/telegram.py), driven by the jobs that            *)
(* ListingRadarApp.setup_scheduler registers (src/src/main.py).            *)
(*                                                                         *)
(* Time is counted in hours.  Scores are Python floats in the code;        *)
(* here a sub-score s is the integer s * Scale and a composite score c is  *)
(* the integer c * 100 * Scale, so that the weights 0.35/0.25/0.20/0.20    *)
(* and the divisions by 24 and by 1000 are exact.                          *)
(***************************************************************************)
EXTENDS Integers, Sequences, FiniteSets, TLC

(* ------------------------------ units -------------------------------- *)

\* 24 divides Scale (velocity = change / 24) and so does 1000 (|change| / 1000).
Scale == 24 * 125

\* x points as a sub-score
Pts(x) == x * Scale

\* x points as a composite score
CPts(x) == x * 100 * Scale

\* a NULL column / a Python None (outside every column's range of values)
None == -1000000

Min(a, b) == IF a <= b THEN a ELSE b

Max(a, b) == IF a >= b THEN a ELSE b

Abs(a) == IF a >= 0 THEN a ELSE 0 - a

(* ------------------------------ bounds ------------------------------- *)

\* steps the clock takes
MaxTicks == 3

\* scheduled trend collections taken by the model
MaxTrendRuns == 1

(* ------------------------- program constants ------------------------- *)

\* timedelta(hours=6) of the dedup query
DedupHours == 6

\* config scoring.momentum_threshold, default
MomentumThreshold == 60

\* "Mark as trending if score > 60"
TrendingAbove == 60

\* timedelta(days=30) of the search window and of the competition window
SearchWindowDays == 30

\* .limit(5) of the search query
SearchLimit == 5

\* timedelta(days=7) of the social window
SocialWindowDays == 7

\* hours_elapsed default of calculate_bsr_velocity_score
DefaultHours == 24

\* weights, in hundredths
WBsr == 35

WSearch == 25

WSocial == 20

WCompetition == 20

\* APScheduler runs at most this many instances of one job at a time unless
\* add_job is given max_instances; setup_scheduler gives none.
MaxInstances == 1

VARIABLES
    now,        \* datetime.utcnow(), in hours
    products,   \* table products: asin -> row (committed)
    trend,      \* table trend_data, in insertion order (committed)
    alerts,     \* table alerts, in insertion order (committed)
    runs,       \* alert_checker job instances: idle, suspended at the await, or returning
    failing,    \* a scoring batch between its exception and the close of its session
    trendRuns,  \* trend collections taken so far
    phase,      \* ListingRadarApp.start: "amazon", "trends", "scores", then "running"
    call        \* a call made from outside the jobs, with what it returned

vars == <<now, products, trend, alerts, runs, failing, trendRuns, phase, call>>

(* ----------------------- storage/db.py: rows -------------------------- *)

\* keep the last n elements of a sequence
LastN(s, n) == SubSeq(s, Max(1, Len(s) - n + 1), Len(s))

\* str.lower() on the words the catalog uses
LowerWord(w) ==
    CASE w = "Stanley" -> "stanley"
      [] w = "Quencher" -> "quencher"
      [] w = "H2.0" -> "h2.0"
      [] w = "FlowState" -> "flowstate"
      [] w = "Tumbler" -> "tumbler"
      [] w = "Simple" -> "simple"
      [] w = "Modern" -> "modern"
      [] w = "oz" -> "oz"
      [] w = "with" -> "with"
      [] w = "Handle" -> "handle"
      [] OTHER -> w

\* " ".join(title.split()[0:3]).lower(): a title is its sequence of words, a keyword
\* the sequence of its (at most three) lower-cased words
Keyword(title) == [k \in 1..Min(3, Len(title)) |-> LowerWord(title[k])]

(* --------------------- scoring/engine.py: sub-scores ------------------ *)

\* 10^(k/10) * 1000, rounded up, for k = 20..30
Pow10Tenths ==
    <<100000, 125893, 158490, 199527, 251189, 316228, 398108, 501188, 630958, 794329, 1000000>>

\* floor(10 * log10(v)) for a velocity v = vS / Scale in [100, 1000), and 30 from
\* 1000 on (where min(100, 70 + log10(v) * 10) is 100 whatever v is).  The code's
\* float log10 is rounded down to a whole score point here.
Log10Times10(vS) ==
    LET ks == {k \in 1..11 : vS >= Pow10Tenths[k] * (Scale \div 1000)}
    IN  IF ks = {} THEN 19 ELSE 19 + CHOOSE k \in ks : \A j \in ks : j <= k

\* tiers of a climb without their caps
ClimbUncapped(vS) ==
    IF vS > Pts(100)
    THEN [score |-> Pts(70) + Pts(Log10Times10(vS)), confidence |-> "high"]
    ELSE IF vS > Pts(10) THEN [score |-> Pts(40) + vS * 2, confidence |-> "medium"]
    ELSE IF vS > Pts(1) THEN [score |-> Pts(20) + vS * 10, confidence |-> "low"]
    ELSE [score |-> vS * 20, confidence |-> "low"]

\* tiers of a climb that take their lower edge in
ClimbInclusive(vS) ==
    IF vS >= Pts(100)
    THEN [score |-> Min(Pts(100), Pts(70) + Pts(Log10Times10(vS))), confidence |-> "high"]
    ELSE IF vS >= Pts(10)
    THEN [score |-> Min(Pts(80), Pts(40) + vS * 2), confidence |-> "medium"]
    ELSE IF vS >= Pts(1)
    THEN [score |-> Min(Pts(60), Pts(20) + vS * 10), confidence |-> "low"]
    ELSE [score |-> Max(0, vS * 20), confidence |-> "low"]

\* "Score based on velocity, capped at 100": the tiers of a climb with velocity
\* vS / Scale ranks per hour
ClimbScore(vS) ==
    IF vS > Pts(100)
    THEN [score |-> Min(Pts(100), Pts(70) + Pts(Log10Times10(vS))), confidence |-> "high"]
    ELSE IF vS > Pts(10)
    THEN [score |-> Min(Pts(80), Pts(40) + vS * 2), confidence |-> "medium"]
    ELSE IF vS > Pts(1)
    THEN [score |-> Min(Pts(60), Pts(20) + vS * 10), confidence |-> "low"]
    ELSE [score |-> Max(0, vS * 20), confidence |-> "low"]

\* a call that ends in an exception instead of a (score, confidence) pair
Raised(exception) == [score |-> None, confidence |-> exception]

\* a rank calculator that looks at the current rank first
BsrCurrentFirst(cur, prev, hours) ==
    IF cur = None THEN Raised("TypeError")
    ELSE [score |-> 0, confidence |-> "insufficient_data"]

\* calculate_bsr_velocity_score(current_bsr, previous_bsr, hours_elapsed):
\* "not previous_bsr" is decided first, then "current_bsr <= 0", which raises on
\* None; the division raises on hours_elapsed = 0
BsrVelocityScore(cur, prev, hours) ==
    IF prev = None \/ prev = 0
    THEN [score |-> 0, confidence |-> "insufficient_data"]
    ELSE IF cur = None
    THEN Raised("TypeError")
    ELSE IF cur <= 0
    THEN [score |-> 0, confidence |-> "insufficient_data"]
    ELSE IF prev - cur > 0 /\ hours = 0
    THEN Raised("ZeroDivisionError")
    ELSE LET change == prev - cur
         IN  IF change <= 0
             THEN [score |-> Max(0, Pts(20) - (Abs(change) * Scale) \div 1000),
                   confidence |-> "declining"]
             ELSE ClimbScore((change * Scale) \div hours)

\* a search calculator that falls back to a neutral score without data
SearchNeutral(volumes) ==
    IF Len(volumes) < 2 THEN [score |-> Pts(30), confidence |-> "low"]
    ELSE [score |-> Max(0, Min(Pts(70), Pts(volumes[Len(volumes)] - volumes[1]) * 2)),
          confidence |-> "low"]

\* the scoring of calculate_search_acceleration_score, from the volumes of the
\* rows its query returned, oldest first (volumes = reversed(recent_data))
SearchScoreOf(volumes) ==
    LET n == Len(volumes)
    IN  IF n < 2
        THEN [score |-> 0, confidence |-> "insufficient_data"]
        ELSE IF n >= 3
        THEN LET acceleration ==
                     (volumes[n] - volumes[n - 1]) - (volumes[n - 1] - volumes[n - 2])
             IN  IF acceleration > 10
                 THEN [score |-> Min(Pts(100), Pts(60) + Pts(acceleration) * 2),
                       confidence |-> "high"]
                 ELSE IF acceleration > 5
                 THEN [score |-> Min(Pts(80), Pts(40) + Pts(acceleration) * 4),
                       confidence |-> "medium"]
                 ELSE IF acceleration > 0
                 THEN [score |-> Min(Pts(60), Pts(20) + Pts(acceleration) * 8),
                       confidence |-> "low"]
                 ELSE [score |-> Max(0, Pts(30) + Pts(acceleration) * 5),
                       confidence |-> "low"]
        ELSE [score |-> Max(0, Min(Pts(70), Pts(volumes[n] - volumes[1]) * 2)),
              confidence |-> "low"]

\* the query of calculate_search_acceleration_score at time t, as the volumes
\* oldest first.  Rows are inserted with timestamp = utcnow(), so ORDER BY
\* timestamp DESC LIMIT 5 is the last five matching rows of the table.
SearchVolumes(keyword, td, t) ==
    LET Recent(d) == /\ d.keyword = keyword
                     /\ d.platform = "google_trends"
                     /\ d.timestamp > t - SearchWindowDays * 24
        recent_data == LastN(SelectSeq(td, Recent), SearchLimit)
    IN  [k \in 1..Len(recent_data) |-> recent_data[k].volume_score]

\* calculate_search_acceleration_score(keyword, db) at time t
SearchAccelerationScore(keyword, td, t) == SearchScoreOf(SearchVolumes(keyword, td, t))

\* sum(...) over a sequence of numbers
RECURSIVE SumSeq(_)
SumSeq(s) == IF s = <<>> THEN 0 ELSE Head(s) + SumSeq(Tail(s))

\* the scoring of calculate_social_buzz_score, from the rows its query returned;
\* sentiment_score is kept in hundredths (0..100 for 0.0..1.0)
SocialScoreOf(recent_social) ==
    LET n == Len(recent_social)
        total_mentions == SumSeq([k \in 1..n |-> recent_social[k].volume_score])
        \* (avg_sentiment - 0.5) * 40, as a sub-score
        boost == (SumSeq([k \in 1..n |-> recent_social[k].sentiment_score]) * 40 * Scale)
                     \div (100 * n) - Pts(20)
        mention_score == Min(Pts(50), Pts(total_mentions) * 2)
        sentiment_boost == Max(0 - Pts(20), Min(Pts(20), boost))
        score == mention_score + sentiment_boost
    IN  IF recent_social = <<>>
        THEN [score |-> 0, confidence |-> "no_data"]
        ELSE [score |-> Max(0, score),
              confidence |-> IF score > Pts(60) THEN "high"
                             ELSE IF score > Pts(30) THEN "medium" ELSE "low"]

\* the query of calculate_social_buzz_score at time t
RecentSocial(keyword, td, t) ==
    LET Recent(d) == /\ d.keyword = keyword
                     /\ d.platform \in {"reddit", "tiktok"}
                     /\ d.timestamp > t - SocialWindowDays * 24
    IN  SelectSeq(td, Recent)

\* calculate_social_buzz_score(keyword, db) at time t
SocialBuzzScore(keyword, td, t) == SocialScoreOf(RecentSocial(keyword, td, t))

\* a competition calculator with a tag of its own for a crowded category
CompetitionCrowded(n) ==
    [score |-> Min(Pts(100), Pts(n)), confidence |-> IF n > 50 THEN "crowded" ELSE "low"]

\* competition tiers that take their lower edge in
CompetitionInclusive(n) ==
    IF n >= 50 THEN [score |-> Min(Pts(100), Pts(70) + (Pts(n) \div 2)), confidence |-> "high"]
    ELSE IF n >= 20
    THEN [score |-> Min(Pts(80), Pts(40) + (Pts(n) * 3) \div 2), confidence |-> "medium"]
    ELSE IF n >= 5 THEN [score |-> Min(Pts(60), Pts(20) + Pts(n) * 3), confidence |-> "low"]
    ELSE [score |-> Max(0, Pts(n) * 10), confidence |-> "low"]

\* the tiers of calculate_competition_score for new_products = n
CompetitionScoreOf(n) ==
    IF n > 50 THEN [score |-> Min(Pts(100), Pts(70) + (Pts(n) \div 2)), confidence |-> "high"]
    ELSE IF n > 20
    THEN [score |-> Min(Pts(80), Pts(40) + (Pts(n) * 3) \div 2), confidence |-> "medium"]
    ELSE IF n > 5 THEN [score |-> Min(Pts(60), Pts(20) + Pts(n) * 3), confidence |-> "low"]
    ELSE [score |-> Max(0, Pts(n) * 10), confidence |-> "low"]

\* the count query of calculate_competition_score at time t
NewProductsIn(category, prods, t) ==
    Cardinality({a \in DOMAIN prods :
        /\ prods[a].category = category
        /\ prods[a].first_seen > t - SearchWindowDays * 24})

\* calculate_competition_score(category, db) at time t
CompetitionScore(category, prods, t) == CompetitionScoreOf(NewProductsIn(category, prods, t))

(* --------------------- scoring/engine.py: composite ------------------- *)

\* confidences.count(tag)
CountOf(confidences, tag) ==
    Cardinality({k \in DOMAIN confidences : confidences[k] = tag})

\* an overall confidence that passes a sub-score's tag through
FirstTag(confidences) == IF confidences = <<>> THEN "low" ELSE confidences[1]

\* an overall confidence that is high from one high tag on
OneHighIsHigh(confidences) ==
    IF CountOf(confidences, "high") >= 1 THEN "high"
    ELSE IF CountOf(confidences, "medium") >= 2 THEN "medium"
    ELSE "low"

\* "Determine overall confidence"
OverallConfidence(confidences) ==
    LET high_conf == CountOf(confidences, "high")
        med_conf == CountOf(confidences, "medium")
    IN  IF high_conf >= 2 THEN "high"
        ELSE IF high_conf >= 1 \/ med_conf >= 2 THEN "medium"
        ELSE "low"

\* Python truth of a nullable integer column
TruthyInt(x) == x # None /\ x # 0

\* Python truth of the title column: a title is its sequence of words, and a NULL
\* title and the empty title (both false in Python) are <<>>
TruthyTitle(x) == x # <<>>

\* Python truth of the category column; NULL and '' are ""
TruthyCategory(x) == x # ""

\* a composite that spreads the weight of the sub-scores without data over the
\* others
CompositeRenormalized(hasBsr, hasTitle, hasCategory, bsr, search, social, competition) ==
    LET HasData(r) == r.confidence \notin {"insufficient_data", "no_data"}
        used == (IF hasBsr /\ HasData(bsr) THEN WBsr ELSE 0)
                + (IF hasTitle /\ HasData(search) THEN WSearch ELSE 0)
                + (IF hasTitle /\ HasData(social) THEN WSocial ELSE 0)
                + (IF hasCategory /\ HasData(competition) THEN WCompetition ELSE 0)
        composite_score ==
            (IF hasBsr THEN bsr.score * WBsr ELSE 0)
            + (IF hasTitle THEN search.score * WSearch ELSE 0)
            + (IF hasTitle THEN social.score * WSocial ELSE 0)
            + (IF hasCategory THEN competition.score * WCompetition ELSE 0)
    IN  [score |-> IF used = 0 THEN 0
                   ELSE Min(CPts(100), Max(0, (composite_score \div used) * 100)),
         confidence |-> OverallConfidence(
             (IF hasBsr THEN <<bsr.confidence>> ELSE <<>>)
             \o (IF hasTitle THEN <<search.confidence, social.confidence>> ELSE <<>>)
             \o (IF hasCategory THEN <<competition.confidence>> ELSE <<>>))]

\* the second half of calculate_composite_momentum_score: the sub-scores that
\* apply (the others enter as 0 and add no tag), their weighted sum clamped to
\* [0, 100], and the overall confidence
CompositeOf(hasBsr, hasTitle, hasCategory, bsr, search, social, competition) ==
    LET confidences ==
            (IF hasBsr THEN <<bsr.confidence>> ELSE <<>>)
            \o (IF hasTitle THEN <<search.confidence, social.confidence>> ELSE <<>>)
            \o (IF hasCategory THEN <<competition.confidence>> ELSE <<>>)
        composite_score ==
            (IF hasBsr THEN bsr.score * WBsr ELSE 0)
            + (IF hasTitle THEN search.score * WSearch ELSE 0)
            + (IF hasTitle THEN social.score * WSocial ELSE 0)
            + (IF hasCategory THEN competition.score * WCompetition ELSE 0)
    IN  [score |-> Min(CPts(100), Max(0, composite_score)),
         confidence |-> OverallConfidence(confidences)]

\* calculate_composite_momentum_score on a product with the ranks cur and prev,
\* with or without title and category, whose three queries returned volumes, rows
\* and n
CompositeFrom(cur, prev, titled, filed, volumes, rows, n) ==
    CompositeOf(TruthyInt(cur) /\ TruthyInt(prev), titled, filed,
                BsrVelocityScore(cur, prev, DefaultHours),
                SearchScoreOf(volumes), SocialScoreOf(rows), CompetitionScoreOf(n))

\* calculate_composite_momentum_score(product, db) at time t
Composite(product, prods, td, t) ==
    CompositeFrom(product.bsr_current, product.bsr_previous,
                  TruthyTitle(product.title), TruthyCategory(product.category),
                  SearchVolumes(Keyword(product.title), td, t),
                  RecentSocial(Keyword(product.title), td, t),
                  NewProductsIn(product.category, prods, t))

\* product.is_trending = momentum_score > 60
IsTrending(momentum_score) == momentum_score > CPts(TrendingAbove)

\* an update that forgets the flag
ScoreOnly(product, result, t) ==
    [product EXCEPT !.momentum_score = result.score,
                    !.confidence_level = result.confidence,
                    !.last_updated = t]

\* the four assignments of update_product_momentum / batch_update_momentum_scores
\* to a loaded row
\* a scoring update that also moves the current rank into the previous one
RescoredRanked(product, result, t) ==
    [product EXCEPT !.momentum_score = result.score,
                    !.confidence_level = result.confidence,
                    !.last_updated = t,
                    !.is_trending = IsTrending(result.score),
                    !.bsr_previous = product.bsr_current]

Rescored(product, result, t) ==
    [product EXCEPT !.momentum_score = result.score,
                    !.confidence_level = result.confidence,
                    !.last_updated = t,
                    !.is_trending = IsTrending(result.score)]

\* db.commit(): the rows modified in the session replace the stored ones
Committed(prods, staged) ==
    [a \in DOMAIN prods |-> IF a \in DOMAIN staged THEN staged[a] ELSE prods[a]]

\* a close that writes the session's modifications through
Flushed(prods, staged) ==
    [a \in DOMAIN prods |-> IF a \in DOMAIN staged THEN staged[a] ELSE prods[a]]

\* db.close() without a commit (the finally of update_momentum_scores after an
\* exception): the session's modifications are rolled back
RolledBack(prods, staged) == prods

(* ------------------------ collectors: what they write ----------------- *)

\* two of the twenty entries of get_real_products_for_demo, in list order
Catalog ==
    << [asin |-> "B0B3YC5VPC",
        title |-> <<"Stanley", "Quencher", "H2.0", "FlowState", "Tumbler">>,
        category |-> "Home & Kitchen"],
       [asin |-> "B08W2TP2TT",
        title |-> <<"Simple", "Modern", "40", "oz", "Tumbler", "with", "Handle">>,
        category |-> "Home & Kitchen"] >>

Asins == {Catalog[k].asin : k \in DOMAIN Catalog}

CatalogEntry(a) == Catalog[CHOOSE k \in DOMAIN Catalog : Catalog[k].asin = a]

\* what get_real_products_for_demo draws at random for one product: current_bsr in
\* 100..50000, previous_bsr = current + (1000..20000) or current - (0..5000),
\* first_seen 1..90 days back, price 9.99..149.99 (here in cents).  Two draws: a
\* fast climb and a flat rank.
ProductDraws ==
    { [bsr_current |-> 100, bsr_previous |-> 20100, age_days |-> 1, price |-> 1999],
      [bsr_current |-> 5000, bsr_previous |-> 5000, age_days |-> 1, price |-> 1999] }

\* Product(...) as update_product_database builds it; the columns it does not set
\* are NULL, is_trending and last_updated take their column defaults
NewProduct(entry, draw, t) ==
    [asin |-> entry.asin, title |-> entry.title, category |-> entry.category,
     price |-> draw.price,
     bsr_current |-> draw.bsr_current, bsr_previous |-> draw.bsr_previous,
     momentum_score |-> None, confidence_level |-> None,
     first_seen |-> t - draw.age_days * 24, last_updated |-> t,
     is_trending |-> FALSE]

\* what generate_mock_trend_data draws for one keyword: the latest volume of its
\* series and the last difference of that series
TrendDraws ==
    { [volume_score |-> 10, velocity_score |-> 0],
      [volume_score |-> 40, velocity_score |-> 30] }

\* TrendData(...) as update_trends_database builds it (sentiment 0.5, in hundredths)
NewTrend(keyword, draw, t) ==
    [keyword |-> keyword, platform |-> "google_trends",
     volume_score |-> draw.volume_score, velocity_score |-> draw.velocity_score,
     sentiment_score |-> 50, timestamp |-> t]

\* extract_keywords_from_products: the keywords of the stored products, once each,
\* here as the sequence of catalog positions that carry a new keyword
RECURSIVE KeywordsOf(_, _, _)
KeywordsOf(prods, k, seen) ==
    IF k > Len(Catalog) THEN <<>>
    ELSE LET a == Catalog[k].asin
             kw == Keyword(Catalog[k].title)
         IN  IF a \in DOMAIN prods /\ TruthyTitle(prods[a].title) /\ kw \notin seen
             THEN <<kw>> \o KeywordsOf(prods, k + 1, seen \cup {kw})
             ELSE KeywordsOf(prods, k + 1, seen)

\* trend rows a store may hold from earlier sessions: two flat observations per
\* catalog keyword, two and one day old, and one observation outside the 30 days
StoredTrend ==
    << NewTrend(Keyword(Catalog[1].title), [volume_score |-> 90, velocity_score |-> 0], 0 - 31 * 24),
       NewTrend(Keyword(Catalog[1].title), [volume_score |-> 10, velocity_score |-> 0], 0 - 48),
       NewTrend(Keyword(Catalog[2].title), [volume_score |-> 10, velocity_score |-> 0], 0 - 48),
       NewTrend(Keyword(Catalog[1].title), [volume_score |-> 10, velocity_score |-> 0], 0 - 24),
       NewTrend(Keyword(Catalog[2].title), [volume_score |-> 10, velocity_score |-> 0], 0 - 24) >>

(* ----------------------- alerts/telegram.py --------------------------- *)

\* the rows of a products query without ORDER BY, in id (insertion) order
RECURSIVE InIdOrder(_, _)
InIdOrder(S, k) ==
    IF k > Len(Catalog) THEN <<>>
    ELSE (IF Catalog[k].asin \in S THEN <<Catalog[k].asin>> ELSE <<>>) \o InIdOrder(S, k + 1)

\* a filter that takes every scored product
AnyScored(p) == p.momentum_score # None

\* the filter of check_and_send_alerts; a comparison with NULL selects nothing
AlertWorthy(p) ==
    /\ p.momentum_score # None
    /\ p.momentum_score >= CPts(MomentumThreshold)
    /\ p.confidence_level \in {"medium", "high"}
    /\ p.is_trending = TRUE

\* a dedup query that looks at the newest row of the log only
RecentLast(al, asin, t) ==
    /\ al # <<>>
    /\ al[Len(al)].product_asin = asin
    /\ al[Len(al)].sent_at > t - DedupHours

\* a dedup query that counts delivered alerts only
RecentDelivered(al, asin, t) ==
    \E k \in DOMAIN al : /\ al[k].product_asin = asin
                         /\ al[k].telegram_sent
                         /\ al[k].sent_at > t - DedupHours

\* a dedup query without its time bound
AlertedBefore(al, asin, t) == \E k \in DOMAIN al : al[k].product_asin = asin

\* a dedup query whose window includes its edge
RecentInclusive(al, asin, t) ==
    \E k \in DOMAIN al : al[k].product_asin = asin /\ al[k].sent_at >= t - DedupHours

\* the dedup query of send_momentum_alert at time t: a row of this product with
\* sent_at > utcnow() - 6 hours
RecentAlert(al, asin, t) ==
    \E k \in DOMAIN al : al[k].product_asin = asin /\ al[k].sent_at > t - DedupHours

\* the part of the for loop that does not suspend: products whose dedup query
\* finds a row return False at once
RECURSIVE SkipRecent(_, _, _)
SkipRecent(todo, al, t) ==
    IF todo = <<>> THEN <<>>
    ELSE IF RecentAlert(al, Head(todo), t) THEN SkipRecent(Tail(todo), al, t)
    ELSE todo

\* format_momentum_alert raises TypeError on a product it cannot print: one with a
\* NULL price (:.2f) or a NULL bsr_current (:,).  (The score and the confidence
\* of a product the loop reaches are set: the eligibility query compared them.)
FormatRaises(product) == product.price = None \/ product.bsr_current = None

\* format_momentum_alert: what the message embeds of the loaded product
FormatMomentumAlert(product, t) ==
    [emoji |-> IF product.momentum_score >= CPts(80) THEN "rocket"
               ELSE IF product.momentum_score >= CPts(60) THEN "chart" ELSE "bolt",
     asin |-> product.asin,
     momentum_score |-> product.momentum_score,
     confidence |-> product.confidence_level,
     at |-> t]

\* Alert(...) of send_momentum_alert, with sent_at = utcnow() at the insert.
\* History: checked_at is when the dedup query ran, q_* what the eligibility
\* query of the run had read of the product.
NewAlert(run, sent, t) ==
    [product_asin |-> run.product.asin,
     alert_type |-> "momentum_spike",
     message |-> run.message,
     momentum_score |-> run.product.momentum_score,
     confidence |-> run.product.confidence_level,
     sent_at |-> t,
     telegram_sent |-> sent,
     checked_at |-> run.checked_at,
     q_score |-> run.eligible[run.product.asin].momentum_score,
     q_confidence |-> run.eligible[run.product.asin].confidence_level,
     q_trending |-> run.eligible[run.product.asin].is_trending]

\* a log that keeps delivered alerts only
LoggedIfSent(al, run, sent, t) == IF sent THEN Append(al, NewAlert(run, sent, t)) ELSE al

\* db.add(alert); db.commit() of send_momentum_alert: the row is appended whatever
\* the send returned
Logged(al, run, sent, t) == Append(al, NewAlert(run, sent, t))

Instances == {1, 2}

IdleRun ==
    [pc |-> "idle", product |-> <<>>, rest |-> <<>>, message |-> <<>>, checked_at |-> 0,
     alerts_sent |-> 0, started |-> 0, eligible |-> <<>>, n0 |-> 0, errors |-> <<>>]

Running(rs) == {i \in Instances : rs[i].pc # "idle"}

\* a scheduler that lets a second instance of the job start
TwoMayRun(rs) == Cardinality(Running(rs)) < Cardinality(Instances)

\* the scheduler starts a job only while fewer than max_instances of it run
JobMayStart(rs) == Cardinality(Running(rs)) < MaxInstances

\* the run as it stands at "await self.send_telegram_message(message)" for the
\* first product of todo: the product is read from the store (the eligibility
\* query loaded it, or the commit of the previous alert expired it and the
\* dedup query's product.asin reloads it)
AtAwait(run, todo, prods, t) ==
    [run EXCEPT !.pc = "sending",
                !.product = prods[Head(todo)],
                !.rest = Tail(todo),
                !.message = FormatMomentumAlert(prods[Head(todo)], t),
                !.checked_at = t]

\* the run after its for loop: "return alerts_sent", then the finally of check_alerts
Returning(run) ==
    [run EXCEPT !.pc = "returning", !.product = <<>>, !.rest = <<>>, !.message = <<>>]

\* a for loop that the first exception ends
AdvanceUncaught(run, todo, al, prods, t) ==
    LET left == SkipRecent(todo, al, t)
    IN  IF left = <<>> THEN Returning(run)
        ELSE IF FormatRaises(prods[Head(left)])
        THEN Returning([run EXCEPT !.errors = Append(@, Head(left))])
        ELSE AtAwait(run, left, prods, t)

\* the for loop of check_and_send_alerts from the products todo on: up to the next
\* await, or to the end of the loop.  A product whose message cannot be built
\* raises out of send_momentum_alert; the except of the loop prints the error
\* (History: errors) and the loop goes on.
RECURSIVE Advance(_, _, _, _, _)
Advance(run, todo, al, prods, t) ==
    LET left == SkipRecent(todo, al, t)
    IN  IF left = <<>> THEN Returning(run)
        ELSE IF FormatRaises(prods[Head(left)])
        THEN Advance([run EXCEPT !.errors = Append(@, Head(left))], Tail(left), al, prods, t)
        ELSE AtAwait(run, left, prods, t)

(* ------------------------------ state --------------------------------- *)

NotFailing == [aborted |-> FALSE]

NoCall == [op |-> "none"]

\* ListingRadarApp() and the first lines of start(): a store without products and
\* alerts, the scheduler not yet started
Init ==
    /\ now = 0
    /\ products = <<>>
    /\ trend = StoredTrend
    /\ alerts = <<>>
    /\ runs = [i \in Instances |-> IdleRun]
    /\ failing = NotFailing
    /\ trendRuns = 0
    /\ phase = "amazon"
    /\ call = NoCall

\* no synchronous stretch of a handler is in the middle of its work
LoopFree == ~failing.aborted /\ \A i \in Instances : runs[i].pc # "returning"

\* self.scheduler.start() has run: the jobs fire
Scheduled == phase = "running" /\ LoopFree

\* the step of run_initial_collection that comes next
Starting(step) == phase = step /\ LoopFree

\* The clock steps by three hours: seen from an alert sent at T, a check can fall
\* inside the dedup window (T+3h), on its edge (T+6h) and past it (T+9h).  A
\* send is over long before the next step, so no run is suspended across one.
Tick ==
    /\ Scheduled
    /\ Running(runs) = {}
    /\ now < 3 * MaxTicks
    /\ now' = now + 3
    /\ UNCHANGED <<products, trend, alerts, runs, trendRuns, phase, failing, call>>

\* collect_amazon_data -> update_product_database: one insert and commit per
\* catalog entry; an asin already stored violates the unique index, the insert
\* is rolled back and the loop goes on.  First step of run_initial_collection,
\* then the job amazon_collector.
CollectAmazon ==
    /\ Starting("amazon") \/ Scheduled
    /\ \E draws \in [Asins \ DOMAIN products -> ProductDraws] :
          products' = [a \in Asins |->
                          IF a \in DOMAIN products THEN products[a]
                          ELSE NewProduct(CatalogEntry(a), draws[a], now)]
    /\ phase' = IF phase = "amazon" THEN "trends" ELSE phase
    /\ UNCHANGED <<now, trend, alerts, runs, trendRuns, failing, call>>

\* collect_trends_data -> update_trends_database: one row per keyword of the
\* stored products, all in one commit.  (The rows of the ten sampled trending
\* queries carry keywords no catalog title yields; they are left out.)  Second
\* step of run_initial_collection, then the job trends_collector.
CollectTrends ==
    /\ Starting("trends") \/ Scheduled
    /\ trendRuns < MaxTrendRuns
    /\ LET keywords == KeywordsOf(products, 1, {})
       IN  \E draws \in [DOMAIN keywords -> TrendDraws] :
              trend' = trend \o [k \in DOMAIN keywords |-> NewTrend(keywords[k], draws[k], now)]
    /\ trendRuns' = trendRuns + 1
    /\ phase' = IF phase = "trends" THEN "scores" ELSE phase
    /\ UNCHANGED <<now, products, alerts, runs, failing, call>>

\* an update of one product that also logs the new score in the alerts table
UpdateProductLogged(a) ==
    /\ Scheduled
    /\ a \in DOMAIN products
    /\ products' = [products EXCEPT
                       ![a] = Rescored(products[a], Composite(products[a], products, trend, now), now)]
    /\ alerts' = Append(alerts,
                        [product_asin |-> a, alert_type |-> "momentum_spike",
                         message |-> <<>>, momentum_score |-> CPts(100),
                         confidence |-> "high", sent_at |-> now,
                         telegram_sent |-> FALSE, checked_at |-> now,
                         q_score |-> CPts(100), q_confidence |-> "high",
                         q_trending |-> TRUE])
    /\ UNCHANGED <<now, trend, runs, trendRuns, phase, failing, call>>

\* update_product_momentum(product_id, db): one product, scored and committed
UpdateProductMomentum(a) ==
    /\ Scheduled
    /\ a \in DOMAIN products
    /\ products' = [products EXCEPT
                       ![a] = Rescored(products[a], Composite(products[a], products, trend, now), now)]
    /\ UNCHANGED <<now, trend, alerts, runs, trendRuns, phase, failing, call>>

\* the session of batch_update_momentum_scores after k passes of its for loop:
\* the first k products of query.all(), each scored and modified, none committed
StagedAfter(k, prods, td, t) ==
    LET order == InIdOrder(DOMAIN prods, 1)
    IN  [a \in {order[j] : j \in 1..k} |->
            Rescored(prods[a], Composite(prods[a], prods, td, t), t)]

\* update_momentum_scores -> batch_update_momentum_scores, which has no await: the
\* loop over every product, then the one db.commit().  Last step of
\* run_initial_collection, then the job momentum_scorer.
BatchUpdate ==
    /\ Starting("scores") \/ Scheduled
    /\ products' = Committed(products,
                             StagedAfter(Cardinality(DOMAIN products), products, trend, now))
    /\ phase' = "running"
    /\ UNCHANGED <<now, trend, alerts, runs, trendRuns, failing, call>>

\* the same, with a query of pass k raising (the store is unavailable): the
\* exception leaves the loop with k - 1 products modified in the session
BatchAbort(k) ==
    /\ Starting("scores") \/ Scheduled
    /\ k \in 1..Cardinality(DOMAIN products)
    /\ failing' = [aborted |-> TRUE, at |-> k,
                   staged |-> StagedAfter(k - 1, products, trend, now)]
    /\ UNCHANGED <<now, products, trend, alerts, runs, trendRuns, phase, call>>

\* update_momentum_scores logs the exception; its finally closes the session
BatchClose ==
    /\ failing.aborted
    /\ products' = RolledBack(products, failing.staged)
    /\ failing' = NotFailing
    /\ phase' = "running"
    /\ UNCHANGED <<now, trend, alerts, runs, trendRuns, call>>

\* check_alerts -> check_and_send_alerts, up to its first await (or to the end of
\* its loop, when every eligible product was alerted recently)
AlertStart ==
    /\ Scheduled
    /\ JobMayStart(runs)
    /\ LET inst == CHOOSE i \in Instances \ Running(runs) :
                       \A j \in Instances \ Running(runs) : i <= j
           worthy == {a \in DOMAIN products : AlertWorthy(products[a])}
           run == [IdleRun EXCEPT !.started = now,
                                  !.eligible = [a \in worthy |-> products[a]],
                                  !.n0 = Len(alerts)]
       IN  runs' = [runs EXCEPT ![inst] =
                       Advance(run, InIdOrder(worthy, 1), alerts, products, now)]
    /\ UNCHANGED <<now, products, trend, alerts, failing, trendRuns, phase, call>>

\* send_telegram_message returns sent (False after a TelegramError, any other
\* exception, or without a configured bot); the Alert row is added and committed,
\* and the loop goes on to its next await or to its end
AlertResume(inst, sent) ==
    /\ Scheduled
    /\ runs[inst].pc = "sending"
    /\ LET run == runs[inst]
           logged == Logged(alerts, run, sent, now)
           counted == [run EXCEPT !.alerts_sent = @ + (IF sent THEN 1 ELSE 0)]
       IN  /\ alerts' = logged
           /\ runs' = [runs EXCEPT ![inst] = Advance(counted, run.rest, logged, products, now)]
    /\ UNCHANGED <<now, products, trend, failing, trendRuns, phase, call>>

\* check_and_send_alerts returns alerts_sent; check_alerts logs it and closes the
\* session
AlertReturn(inst) ==
    /\ runs[inst].pc = "returning"
    /\ runs' = [runs EXCEPT ![inst] = IdleRun]
    /\ UNCHANGED <<now, products, trend, alerts, failing, trendRuns, phase, call>>

\* the program as main.py runs it: the initial collection, then the jobs
Next ==
    \/ Tick
    \/ CollectAmazon
    \/ CollectTrends
    \/ BatchUpdate
    \/ \E k \in 1..Len(Catalog) : BatchAbort(k)
    \/ BatchClose
    \/ AlertStart
    \/ \E inst \in Instances, sent \in BOOLEAN : AlertResume(inst, sent)
    \/ \E inst \in Instances : AlertReturn(inst)

Spec == Init /\ [][Next]_vars

(* --------------- the scoring engine on a store as it may stand --------- *)

\* ranks a products row may hold (bsr_previous is nullable, and
\* update_product_database stores product_data.get('bsr_previous')): a fast, a
\* moderate and a slow climb, a flat rank, a slide, a long slide, no previous rank
StoredRanks ==
    { [bsr_current |-> 100, bsr_previous |-> 20100],
      [bsr_current |-> 4000, bsr_previous |-> 5000],
      [bsr_current |-> 900, bsr_previous |-> 1000],
      [bsr_current |-> 5000, bsr_previous |-> 5000],
      [bsr_current |-> 9000, bsr_previous |-> 1000],
      [bsr_current |-> 50000, bsr_previous |-> 1000],
      [bsr_current |-> 1000, bsr_previous |-> None] }

\* a TrendData row as update_social_database builds it
SocialRow(keyword, platform, mentions, sentiment, t) ==
    [keyword |-> keyword, platform |-> platform, volume_score |-> mentions,
     velocity_score |-> 0, sentiment_score |-> sentiment, timestamp |-> t]

\* trend tables: the stored one; the same after a collection that saw the first
\* keyword surge; that one with social rows (one of them just outside the seven
\* days); the stored one with a social row; and one with a single observation
\* inside the thirty days
StoredTables ==
    LET kw == Keyword(Catalog[1].title)
        surged == Append(StoredTrend, NewTrend(kw, [volume_score |-> 40, velocity_score |-> 30], 0))
    IN  { StoredTrend,
          surged,
          surged \o << SocialRow(kw, "reddit", 40, 30, 0 - SocialWindowDays * 24),
                       SocialRow(kw, "reddit", 30, 80, 0 - 24),
                       SocialRow(kw, "tiktok", 5, 90, 0 - 2) >>,
          StoredTrend \o << SocialRow(kw, "tiktok", 4, 40, 0 - 2) >>,
          << StoredTrend[1], StoredTrend[4] >> }

\* a products row of the store: a catalog entry, unscored; the second entry may
\* lack its title or its category
StoredProduct(k, ranks, titled, filed) ==
    [NewProduct(Catalog[k], [bsr_current |-> ranks.bsr_current,
                             bsr_previous |-> ranks.bsr_previous,
                             age_days |-> 1, price |-> 1999], 0)
        EXCEPT !.title = IF titled THEN @ ELSE <<>>,
               !.category = IF filed THEN @ ELSE ""]

\* the application already started on a store that holds products and trend rows
InitEngine ==
    /\ now = 0
    /\ \E r1 \in StoredRanks, r2 \in StoredRanks, titled \in BOOLEAN, filed \in BOOLEAN :
          products = (Catalog[1].asin :> StoredProduct(1, r1, TRUE, TRUE))
                     @@ (Catalog[2].asin :> StoredProduct(2, r2, titled, filed))
    /\ trend \in StoredTables
    /\ alerts = <<>>
    /\ runs = [i \in Instances |-> IdleRun]
    /\ failing = NotFailing
    /\ trendRuns = 0
    /\ phase = "running"
    /\ call = NoCall

\* the scoring engine called on that store: one product at a time (as a caller of
\* update_product_momentum does) or in a batch
NextEngine ==
    \/ \E a \in Asins : UpdateProductMomentum(a)
    \/ BatchUpdate
    \/ \E k \in 1..Len(Catalog) : BatchAbort(k)
    \/ BatchClose

SpecEngine == InitEngine /\ [][NextEngine]_vars

(* ------------------ the calculators, called one at a time ------------- *)

\* most products a competition count query is taken to return
MaxNew == 60

\* most rows a social query is taken to return
MaxSocial == 2

\* current and previous ranks handed to calculate_bsr_velocity_score: NULL, zero,
\* a negative number, and ranks whose differences lie on and next to the tier
\* edges (24, 240 and 2400 ranks in 24 hours are 1, 10 and 100 ranks an hour)
CurrentRanks ==
    {None, 0 - 5, 0, 1, 100, 599, 600, 759, 760, 900, 975, 976, 999, 1000, 1001, 2000, 3000, 50000}

PreviousRanks == {None, 0 - 5, 0, 1000, 3000, 60000}

\* hours_elapsed: its default, one hour, and zero
ElapsedHours == {0, 1, DefaultHours}

\* volume_score values of the rows a search query returns
Volumes == {0, 10, 11, 15, 16, 22, 100}

\* every list a search query can return: at most n volumes
RECURSIVE VolumeLists(_)
VolumeLists(n) ==
    IF n = 0 THEN {<<>>}
    ELSE LET shorter == VolumeLists(n - 1)
         IN  shorter \cup {Append(l, v) : l \in {x \in shorter : Len(x) = n - 1}, v \in Volumes}

\* (volume_score, sentiment_score) of social rows, the sentiment in hundredths
SocialRows ==
    { [volume_score |-> 0, sentiment_score |-> 50],
      [volume_score |-> 5, sentiment_score |-> 90],
      [volume_score |-> 10, sentiment_score |-> 0],
      [volume_score |-> 20, sentiment_score |-> 100],
      [volume_score |-> 30, sentiment_score |-> 80],
      [volume_score |-> 40, sentiment_score |-> 30] }

\* every list of at most n social rows
RECURSIVE SocialLists(_)
SocialLists(n) ==
    IF n = 0 THEN {<<>>}
    ELSE LET shorter == SocialLists(n - 1)
         IN  shorter \cup {Append(l, r) : l \in {x \in shorter : Len(x) = n - 1}, r \in SocialRows}

\* what a composite call is given: ranks, query results and counts that bring
\* every tag and every tier of the four calculators into the sum
CompositeRanks ==
    { [cur |-> 900, prev |-> 1000], [cur |-> 600, prev |-> 3000],
      [cur |-> 100, prev |-> 20100], [cur |-> 5000, prev |-> 5000],
      [cur |-> 1000, prev |-> None], [cur |-> 0, prev |-> 1000],
      [cur |-> 0 - 5, prev |-> 1000] }

CompositeVolumes ==
    { <<>>, <<10>>, <<10, 40>>, <<10, 10, 16>>, <<10, 10, 22>>, <<0, 0, 100>>, <<100, 10, 0>> }

CompositeSocial ==
    { <<>>,
      << [volume_score |-> 30, sentiment_score |-> 80] >>,
      << [volume_score |-> 20, sentiment_score |-> 100] >>,
      << [volume_score |-> 10, sentiment_score |-> 0] >> }

CompositeCounts == {0, 2, 6, 30, 51, MaxNew}

\* the application not started, its engine imported and called
InitCalc ==
    /\ now = 0
    /\ products = <<>>
    /\ trend = <<>>
    /\ alerts = <<>>
    /\ runs = [i \in Instances |-> IdleRun]
    /\ failing = NotFailing
    /\ trendRuns = 0
    /\ phase = "imported"
    /\ call = NoCall

\* everything but the call
Store == <<now, products, trend, alerts, runs, failing, trendRuns, phase>>

\* the caller holds no result
Importing == phase = "imported" /\ call = NoCall

\* the caller is done with the result of its call
Drop ==
    /\ phase \in {"imported", "digest"}
    /\ call # NoCall
    /\ call' = NoCall
    /\ UNCHANGED Store

CallBsr ==
    /\ Importing
    /\ \E cur \in CurrentRanks, prev \in PreviousRanks, hours \in ElapsedHours :
          call' = [op |-> "bsr", cur |-> cur, prev |-> prev, hours |-> hours,
                   result |-> BsrVelocityScore(cur, prev, hours)]
    /\ UNCHANGED Store

\* the part of calculate_search_acceleration_score after its query
CallSearch ==
    /\ Importing
    /\ \E volumes \in VolumeLists(SearchLimit) :
          call' = [op |-> "search", volumes |-> volumes, result |-> SearchScoreOf(volumes)]
    /\ UNCHANGED Store

\* the part of calculate_social_buzz_score after its query
CallSocial ==
    /\ Importing
    /\ \E rows \in SocialLists(MaxSocial) :
          call' = [op |-> "social", rows |-> rows, result |-> SocialScoreOf(rows)]
    /\ UNCHANGED Store

\* the part of calculate_competition_score after its query
CallCompetition ==
    /\ Importing
    /\ \E n \in 0..MaxNew :
          call' = [op |-> "competition", n |-> n, result |-> CompetitionScoreOf(n)]
    /\ UNCHANGED Store

\* calculate_composite_momentum_score; the call keeps what the four calculators
\* returned to it
CallComposite ==
    /\ Importing
    /\ \E r \in CompositeRanks, titled \in BOOLEAN, filed \in BOOLEAN,
          volumes \in CompositeVolumes, rows \in CompositeSocial, n \in CompositeCounts :
          call' = [op |-> "composite", cur |-> r.cur, prev |-> r.prev,
                   titled |-> titled, filed |-> filed,
                   volumes |-> volumes, rows |-> rows, n |-> n,
                   bsr |-> BsrVelocityScore(r.cur, r.prev, DefaultHours),
                   search |-> SearchScoreOf(volumes),
                   social |-> SocialScoreOf(rows),
                   competition |-> CompetitionScoreOf(n),
                   result |-> CompositeFrom(r.cur, r.prev, titled, filed, volumes, rows, n)]
    /\ UNCHANGED Store

NextCalc ==
    \/ CallBsr
    \/ CallSearch
    \/ CallSocial
    \/ CallCompetition
    \/ CallComposite
    \/ Drop

SpecCalc == InitCalc /\ [][NextCalc]_vars

(* ------------------- alerts/telegram.py: the daily digest -------------- *)

\* yesterday = utcnow() - timedelta(days=1)
DigestWindowDays == 1

\* Product.momentum_score > 40
DigestAbove == 40

\* .limit(10), in both queries of send_daily_digest
DigestLimit == 10

\* top_products[:5] and trending_keywords[:5]
DigestShown == 5

\* product.title[:40]
TitleShown == 40

\* the rocket from a score of 80
RocketFrom == 80

\* the bolt above a velocity of 10
BoltAbove == 10

\* clock steps of the digest specification
MaxDigestTicks == 2

\* entries of get_real_products_for_demo, in list order: the first eleven, and
\* the two of Catalog
Listed ==
    << [asin |-> "B09G9F43QL", title |-> <<"LEVOIT", "Core", "300S", "Air", "Purifier">>,
        category |-> "Home & Kitchen"],
       [asin |-> "B07Y523S3G", title |-> <<"iRobot", "Roomba", "694", "Robot", "Vacuum">>,
        category |-> "Home & Kitchen"],
       [asin |-> "B08166SLDF", title |-> <<"Anker", "Nano", "Charger,", "20W", "PIQ", "3.0">>,
        category |-> "Electronics"],
       [asin |-> "B07XJ8C8F7", title |-> <<"SAMSUNG", "EVO", "Select", "Micro", "SD", "Card">>,
        category |-> "Electronics"],
       [asin |-> "B08J816436", title |-> <<"Hydro", "Flask", "Wide", "Mouth", "Straw", "Lid">>,
        category |-> "Sports & Outdoors"],
       [asin |-> "B01N6S4A25", title |-> <<"LifeStraw", "Personal", "Water", "Filter">>,
        category |-> "Sports & Outdoors"],
       [asin |-> "B07YV1FB4N", title |-> <<"Vital", "Proteins", "Collagen", "Peptides">>,
        category |-> "Health & Personal Care"],
       [asin |-> "B081CK61TW", title |-> <<"TheraGun", "Mini", "Massage", "Gun">>,
        category |-> "Health & Personal Care"],
       [asin |-> "B07RFSS7W2", title |-> <<"CeraVe", "Hydrating", "Facial", "Cleanser">>,
        category |-> "Beauty & Personal Care"],
       [asin |-> "B08L59X72Q",
        title |-> <<"The", "Ordinary", "Niacinamide", "10%", "+", "Zinc", "1%">>,
        category |-> "Beauty & Personal Care"],
       [asin |-> "B07W4F2728",
        title |-> <<"TeeTurtle", "|", "The", "Original", "Reversible", "Octopus">>,
        category |-> "Toys & Games"],
       Catalog[1],
       Catalog[2] >>

\* the rows of products in id order, for a store filled in list order
RECURSIVE ListedRows(_, _)
ListedRows(prods, k) ==
    IF k > Len(Listed) THEN <<>>
    ELSE (IF Listed[k].asin \in DOMAIN prods THEN <<prods[Listed[k].asin]>> ELSE <<>>)
         \o ListedRows(prods, k + 1)

\* ORDER BY key DESC over rows given in id order, keys[i] the key of rows[i]; rows
\* of equal key come out in id order, as the store's sort leaves them
OrderDesc(rows, keys) ==
    LET Before(j, i) == keys[j] > keys[i] \/ (keys[j] = keys[i] /\ j < i)
        Place(i) == 1 + Cardinality({j \in DOMAIN rows : Before(j, i)})
    IN  [p \in DOMAIN rows |-> rows[CHOOSE i \in DOMAIN rows : Place(i) = p]]

\* .limit(n) and [:n]
Limit(rows, n) == SubSeq(rows, 1, Min(n, Len(rows)))

\* the products query taking a score of 40 in
TopProductsFrom40(prods, t) ==
    LET yesterday == t - DigestWindowDays * 24
        rows == SelectSeq(ListedRows(prods, 1),
                          LAMBDA p : /\ p.last_updated > yesterday
                                     /\ p.momentum_score # None
                                     /\ p.momentum_score >= CPts(DigestAbove))
    IN  Limit(OrderDesc(rows, [i \in DOMAIN rows |-> rows[i].momentum_score]), DigestLimit)

\* the first query of send_daily_digest at time t; a NULL score is not > 40
TopProducts(prods, t) ==
    LET yesterday == t - DigestWindowDays * 24
        rows == SelectSeq(ListedRows(prods, 1),
                          LAMBDA p : /\ p.last_updated > yesterday
                                     /\ p.momentum_score # None
                                     /\ p.momentum_score > CPts(DigestAbove))
    IN  Limit(OrderDesc(rows, [i \in DOMAIN rows |-> rows[i].momentum_score]), DigestLimit)

\* the keywords query with a window of seven days
KeywordsOfWeek(td, t) ==
    LET rows == SelectSeq(td, LAMBDA d : /\ d.platform = "google_trends"
                                         /\ d.timestamp > t - 7 * 24
                                         /\ d.velocity_score > 0)
        trending_keywords ==
            Limit(OrderDesc(rows, [i \in DOMAIN rows |-> rows[i].velocity_score]), DigestLimit)
    IN  [i \in DOMAIN trending_keywords |->
            [keyword |-> trending_keywords[i].keyword,
             velocity |-> trending_keywords[i].velocity_score,
             volume |-> trending_keywords[i].volume_score]]

\* the second query of send_daily_digest at time t, and trending_kw_list
TrendingKeywords(td, t) ==
    LET yesterday == t - DigestWindowDays * 24
        rows == SelectSeq(td, LAMBDA d : /\ d.platform = "google_trends"
                                         /\ d.timestamp > yesterday
                                         /\ d.velocity_score > 0)
        trending_keywords ==
            Limit(OrderDesc(rows, [i \in DOMAIN rows |-> rows[i].velocity_score]), DigestLimit)
    IN  [i \in DOMAIN trending_keywords |->
            [keyword |-> trending_keywords[i].keyword,
             velocity |-> trending_keywords[i].velocity_score,
             volume |-> trending_keywords[i].volume_score]]

\* the title column as text: its words, one space apart
RECURSIVE TitleText(_)
TitleText(title) ==
    IF title = <<>> THEN ""
    ELSE IF Len(title) = 1 THEN title[1]
    ELSE title[1] \o " " \o TitleText(Tail(title))

\* text[:n]
Sliced(text, n) == IF Len(text) <= n THEN text ELSE SubSeq(text, 1, n)

\* format(x, '.1f') for x >= 0 held as x * unit: the number of tenths printed, a
\* tie going to the even tenth
OneDecimal(x, unit) ==
    LET q == (x * 10) \div unit
        r == (x * 10) % unit
    IN  IF 2 * r > unit THEN q + 1
        ELSE IF 2 * r = unit THEN q + (q % 2)
        ELSE q

\* datetime.now().strftime('%Y-%m-%d %H:%M') at clock t (hours): the day, the
\* hour and the minute printed
Stamp(t) == [day |-> t \div 24, hour |-> t % 24, minute |-> 0]

\* a digest that prints the same date and time whenever it is built
FormatUndated(top_products, trending_keywords, t) ==
    LET shown == Limit(top_products, DigestShown)
        searches == Limit(trending_keywords, DigestShown)
    IN  [products |->
            [i \in DOMAIN shown |->
                [i |-> i,
                 score_emoji |-> IF shown[i].momentum_score >= CPts(RocketFrom)
                                 THEN "rocket" ELSE "chart",
                 title |-> Sliced(TitleText(shown[i].title), TitleShown),
                 momentum_score |-> OneDecimal(shown[i].momentum_score, CPts(1))]],
         searches |->
            [i \in DOMAIN searches |->
                [i |-> i,
                 velocity_emoji |-> IF searches[i].velocity > BoltAbove
                                    THEN "bolt" ELSE "bars",
                 keyword |-> searches[i].keyword,
                 velocity |-> OneDecimal(searches[i].velocity, 1)]],
         generated_at |-> Stamp(0)]

\* a digest that closes each list with the number of entries it did not print
FormatCounting(top_products, trending_keywords, t) ==
    LET shown == Limit(top_products, DigestShown)
        searches == Limit(trending_keywords, DigestShown)
    IN  [products |->
            [i \in DOMAIN shown |->
                [i |-> i,
                 score_emoji |-> IF shown[i].momentum_score >= CPts(RocketFrom)
                                 THEN "rocket" ELSE "chart",
                 title |-> Sliced(TitleText(shown[i].title), TitleShown),
                 momentum_score |-> OneDecimal(shown[i].momentum_score, CPts(1))]],
         more_products |-> Len(top_products) - Len(shown),
         searches |->
            [i \in DOMAIN searches |->
                [i |-> i,
                 velocity_emoji |-> IF searches[i].velocity > BoltAbove
                                    THEN "bolt" ELSE "bars",
                 keyword |-> searches[i].keyword,
                 velocity |-> OneDecimal(searches[i].velocity, 1)]],
         more_searches |-> Len(trending_keywords) - Len(searches),
         generated_at |-> Stamp(t)]

\* format_trends_digest called at time t: what the message holds, line by line;
\* a list that is empty leaves its heading out
FormatTrendsDigest(top_products, trending_keywords, t) ==
    LET shown == Limit(top_products, DigestShown)
        searches == Limit(trending_keywords, DigestShown)
    IN  [products |->
            [i \in DOMAIN shown |->
                [i |-> i,
                 score_emoji |-> IF shown[i].momentum_score >= CPts(RocketFrom)
                                 THEN "rocket" ELSE "chart",
                 title |-> Sliced(TitleText(shown[i].title), TitleShown),
                 momentum_score |-> OneDecimal(shown[i].momentum_score, CPts(1))]],
         searches |->
            [i \in DOMAIN searches |->
                [i |-> i,
                 velocity_emoji |-> IF searches[i].velocity > BoltAbove
                                    THEN "bolt" ELSE "bars",
                 keyword |-> searches[i].keyword,
                 velocity |-> OneDecimal(searches[i].velocity, 1)]],
         generated_at |-> Stamp(t)]

\* a scored row of products: entry k of the list, scored and last updated as given
ScoredProduct(k, momentum_score, last_updated) ==
    [NewProduct(Listed[k], [bsr_current |-> 4000, bsr_previous |-> 5000, age_days |-> 1,
                           price |-> 1999],
                0 - 48)
        EXCEPT !.momentum_score = momentum_score,
               !.confidence_level = "medium",
               !.last_updated = last_updated,
               !.is_trending = IsTrending(momentum_score)]

\* products tables a digest may find: none; the two catalog products, one scored
\* 85.25 now and one scored 45 a day ago to the hour; three products at the edges
\* of the query and of the rocket (40, 80, and 40.05 under the long title); all
\* thirteen products, scored 38, 42, .., 86, the last one updated too long ago
\* and the others six hours ago
DigestProducts ==
    LET At(k, c, u) == Listed[k].asin :> ScoredProduct(k, c, u)
        Row(k) == At(k, CPts(34 + 4 * k), IF k = Len(Listed) THEN 0 - 30 ELSE 0 - 6)
        RECURSIVE Upto(_)
        Upto(k) == IF k = 0 THEN <<>> ELSE Row(k) @@ Upto(k - 1)
    IN  { <<>>,
          At(12, CPts(85) + (CPts(1) \div 4), 0) @@ At(13, CPts(45), 0 - 24),
          At(1, CPts(40), 0) @@ At(2, CPts(80), 0) @@ At(11, CPts(40) + (CPts(1) \div 20), 0),
          Upto(Len(Listed)) }

\* trend tables a digest may find: the stored one (no velocity above 0); one with
\* a surge two hours ago, a rise two days ago, a rise a day ago to the hour, a
\* fall, and a social row of positive velocity; one with eleven rises of the last
\* eleven hours and a larger one three days ago
DigestTrends ==
    LET kw1 == Keyword(Catalog[1].title)
        kw2 == Keyword(Catalog[2].title)
        Rise(kw, v, t) == NewTrend(kw, [volume_score |-> 40 + v, velocity_score |-> v], t)
    IN  { StoredTrend,
          << Rise(kw2, 12, 0 - 48),
             Rise(kw1, 5, 0 - 24),
             Rise(kw2, 0 - 4, 0 - 3),
             [SocialRow(kw1, "reddit", 30, 80, 0 - 2) EXCEPT !.velocity_score = 15],
             Rise(kw1, 30, 0 - 2) >>,
          << Rise(kw1, 50, 0 - 72) >>
             \o [k \in 1..(DigestLimit + 1) |->
                    Rise(IF k % 2 = 1 THEN kw1 ELSE kw2, k, k - (DigestLimit + 2))] }

\* the application started on a store that holds scored products and trend rows
InitDigest ==
    /\ now = 0
    /\ products \in DigestProducts
    /\ trend \in DigestTrends
    /\ alerts = <<>>
    /\ runs = [i \in Instances |-> IdleRun]
    /\ failing = NotFailing
    /\ trendRuns = 0
    /\ phase = "digest"
    /\ call = NoCall

\* the clock steps by half a day
DigestTick ==
    /\ phase = "digest"
    /\ now < 12 * MaxDigestTicks
    /\ now' = now + 12
    /\ UNCHANGED <<products, trend, alerts, runs, failing, trendRuns, phase, call>>

\* a digest that logs its message in the alerts table
DigestLogged ==
    /\ phase = "digest" \/ Scheduled
    /\ \E sent \in BOOLEAN :
          LET top_products == TopProducts(products, now)
              trending_kw_list == TrendingKeywords(trend, now)
          IN  /\ call' = [op |-> "digest", at |-> now,
                          top_products |-> top_products,
                          trending_keywords |-> trending_kw_list,
                          message |-> FormatTrendsDigest(top_products, trending_kw_list, now),
                          result |-> sent,
                          earlier |-> IF call.op = "digest"
                                      THEN [op |-> "digest", at |-> call.at,
                                            message |-> call.message]
                                      ELSE NoCall,
                          overlapped |-> {i \in Instances : runs[i].pc = "sending"},
                          logged |-> Len(alerts)]
              /\ alerts' = Append(alerts,
                                  [product_asin |-> "", alert_type |-> "daily_digest",
                                   message |-> <<>>, momentum_score |-> CPts(100),
                                   confidence |-> "high", sent_at |-> now,
                                   telegram_sent |-> sent, checked_at |-> now,
                                   q_score |-> CPts(100), q_confidence |-> "high",
                                   q_trending |-> TRUE])
    /\ UNCHANGED <<now, products, trend, runs, failing, trendRuns, phase>>

\* send_daily_digest: the two queries, the message, and send_telegram_message,
\* which returns False without a bot or on a TelegramError and True otherwise.
\* The call keeps what was read, built and returned.  History: earlier is the
\* build before this one, when its result is still held; overlapped the alert
\* checks suspended at their await during the build; logged the length of the
\* alert log at the build.
SendDailyDigest ==
    /\ phase = "digest" \/ Scheduled
    /\ \E sent \in BOOLEAN :
          LET top_products == TopProducts(products, now)
              trending_kw_list == TrendingKeywords(trend, now)
          IN  call' = [op |-> "digest", at |-> now,
                       top_products |-> top_products,
                       trending_keywords |-> trending_kw_list,
                       message |-> FormatTrendsDigest(top_products, trending_kw_list, now),
                       result |-> sent,
                       earlier |-> IF call.op = "digest"
                                   THEN [op |-> "digest", at |-> call.at,
                                         message |-> call.message]
                                   ELSE NoCall,
                       overlapped |-> {i \in Instances : runs[i].pc = "sending"},
                       logged |-> Len(alerts)]
    /\ UNCHANGED Store

NextDigest ==
    \/ DigestTick
    \/ SendDailyDigest
    \/ Drop

SpecDigest == InitDigest /\ [][NextDigest]_vars

(* ------------- the jobs of the started application, overlapping -------- *)

\* ranks of the first and of the second stored product: a fast climb or no
\* previous rank, a fast climb or a flat rank
FirstRanks ==
    { [bsr_current |-> 100, bsr_previous |-> 20100],
      [bsr_current |-> 1000, bsr_previous |-> None] }

SecondRanks ==
    { [bsr_current |-> 100, bsr_previous |-> 20100],
      [bsr_current |-> 5000, bsr_previous |-> 5000] }

\* the price column is nullable: the first stored product may have none
StoredPrices == {1999, None}

\* the application started on a store as an earlier session left it: the stored
\* trend rows and one collection, two products, and the scores of a scoring run;
\* one more collection is to come
InitOverlap ==
    /\ now = 0
    /\ \E draws \in [1..Len(Catalog) -> TrendDraws] :
          trend = StoredTrend
                  \o [k \in 1..Len(Catalog) |-> NewTrend(Keyword(Catalog[k].title), draws[k], 0)]
    /\ \E r1 \in FirstRanks, r2 \in SecondRanks, price \in StoredPrices :
          LET stored == (Catalog[1].asin :>
                            [StoredProduct(1, r1, TRUE, TRUE) EXCEPT !.price = price])
                        @@ (Catalog[2].asin :> StoredProduct(2, r2, TRUE, TRUE))
          IN  products = [a \in DOMAIN stored |->
                             Rescored(stored[a], Composite(stored[a], stored, trend, 0), 0)]
    /\ alerts = <<>>
    /\ runs = [i \in Instances |-> IdleRun]
    /\ failing = NotFailing
    /\ trendRuns = MaxTrendRuns - 1
    /\ phase = "running"
    /\ call = NoCall

\* the jobs of setup_scheduler that read or write products and alerts, and the
\* engine's update of one product (no job calls it, a user of the engine may), in
\* any order, each of them also while an alert check is suspended at its await
NextOverlap ==
    \/ CollectTrends
    \/ BatchUpdate
    \/ \E a \in Asins : UpdateProductMomentum(a)
    \/ AlertStart
    \/ \E inst \in Instances, sent \in BOOLEAN : AlertResume(inst, sent)
    \/ \E inst \in Instances : AlertReturn(inst)
    \/ SendDailyDigest

SpecOverlap == InitOverlap /\ [][NextOverlap]_vars

(* ---------------- scoring runs on a store whose rows age --------------- *)

\* trend tables with rows about to leave a window: a search observation that is
\* three hours short of thirty days old, before one of yesterday and a surge; the
\* stored rows with a surge and a social row three hours short of seven days old;
\* the stored rows with a surge
AgeingTables ==
    LET kw == Keyword(Catalog[1].title)
        Seen(v, t) == NewTrend(kw, [volume_score |-> v, velocity_score |-> 0], t)
    IN  { << Seen(10, 3 - SearchWindowDays * 24), Seen(10, 0 - 24), Seen(40, 0) >>,
          StoredTrend \o << Seen(40, 0),
                            SocialRow(kw, "reddit", 30, 80, 3 - SocialWindowDays * 24) >>,
          StoredTrend \o << Seen(40, 0) >> }

\* run_initial_collection has collected and is about to score: the store holds
\* unscored products and trend rows
InitRescore ==
    /\ now = 0
    /\ \E r1 \in StoredRanks, r2 \in StoredRanks :
          products = (Catalog[1].asin :> StoredProduct(1, r1, TRUE, TRUE))
                     @@ (Catalog[2].asin :> StoredProduct(2, r2, TRUE, TRUE))
    /\ trend \in AgeingTables
    /\ alerts = <<>>
    /\ runs = [i \in Instances |-> IdleRun]
    /\ failing = NotFailing
    /\ trendRuns = 0
    /\ phase = "scores"
    /\ call = NoCall

\* the scoring job alone, run after run as the clock moves on
NextRescore ==
    \/ BatchUpdate
    \/ Tick

SpecRescore == InitRescore /\ [][NextRescore]_vars

(* ------------------------------ properties --------------------------- *)

\* the alert-check runs that have finished their loop
Finished == {i \in Instances : runs[i].pc = "returning"}

\* the rows the log held for product a when the run started
Held(run, a) == {k \in 1..run.n0 : alerts[k].product_asin = a}

\* the rows written for product a since the run started
Wrote(run, a) == {k \in (run.n0 + 1)..Len(alerts) : alerts[k].product_asin = a}

\* two rows of the log, the later one second, for one product
Successive(i, j) ==
    i \in DOMAIN alerts /\ j \in DOMAIN alerts /\ i < j
    /\ alerts[i].product_asin = alerts[j].product_asin

\* C1: the alert log never holds two rows of one product sent less than the six
\* hours of the dedup window apart, and a run that finds an eligible product
\* alerted inside the window writes no row for it.
C1_DedupSafety ==
    /\ \A i, j \in DOMAIN alerts :
          Successive(i, j) => alerts[j].sent_at - alerts[i].sent_at >= DedupHours
    /\ \A i \in Finished : \A a \in DOMAIN runs[i].eligible :
          (\E k \in Held(runs[i], a) : runs[i].started - alerts[k].sent_at < DedupHours)
              => Wrote(runs[i], a) = {}

\* a run has finished that found an eligible product alerted three hours before
\* and wrote nothing for it
C1_Witness ==
    \E i \in Finished : \E a \in DOMAIN runs[i].eligible :
        /\ \E k \in Held(runs[i], a) : runs[i].started - alerts[k].sent_at = 3
        /\ Wrote(runs[i], a) = {}

C3_TrendingFollowsScore ==
    \A a \in DOMAIN products :
        products[a].momentum_score # None
            => (products[a].is_trending <=> products[a].momentum_score > CPts(60))

\* the store holds a scored product above 60 with the flag set and a scored one
\* not above 60
C3_Witness ==
    \E a, b \in DOMAIN products :
        /\ products[a].momentum_score > CPts(60) /\ products[a].is_trending
        /\ products[b].momentum_score # None /\ products[b].momentum_score <= CPts(60)

\* C4: every score the engine has computed, committed or still in its session, is
\* in [0, 100] and comes with a confidence of low, medium or high.
C4_ScoreAndConfidenceRange ==
    LET InRange(row) == /\ 0 <= row.momentum_score
                        /\ row.momentum_score <= CPts(100)
                        /\ row.confidence_level \in {"low", "medium", "high"}
    IN  /\ \A a \in DOMAIN products :
              products[a].momentum_score # None => InRange(products[a])
        /\ failing.aborted => \A a \in DOMAIN failing.staged : InRange(failing.staged[a])

\* a product is scored whose rank sub-score carries the tag declining and whose
\* social sub-score carries the tag no_data
C4_Witness ==
    \E a \in DOMAIN products :
        /\ products[a].momentum_score # None
        /\ TruthyTitle(products[a].title)
        /\ BsrVelocityScore(products[a].bsr_current, products[a].bsr_previous,
                            DefaultHours).confidence = "declining"
        /\ SocialBuzzScore(Keyword(products[a].title), trend, now).confidence = "no_data"

C6_FailedDeliveryStillDedups ==
    /\ \A i, j \in DOMAIN alerts :
          Successive(i, j) /\ ~alerts[i].telegram_sent
              => alerts[j].checked_at - alerts[i].sent_at >= DedupHours
    /\ \A i \in Finished :
          /\ runs[i].alerts_sent =
                Cardinality({k \in (runs[i].n0 + 1)..Len(alerts) : alerts[k].telegram_sent})
          /\ \A a \in DOMAIN runs[i].eligible :
                (\E k \in Held(runs[i], a) : /\ ~alerts[k].telegram_sent
                                             /\ runs[i].started - alerts[k].sent_at < DedupHours)
                    => Wrote(runs[i], a) = {}

\* a run has finished that examined an eligible product three hours after a failed
\* send for it, and wrote no row
C6_Witness ==
    \E i \in Finished : \E a \in DOMAIN runs[i].eligible :
        /\ \E k \in Held(runs[i], a) : /\ ~alerts[k].telegram_sent
                                       /\ runs[i].started - alerts[k].sent_at = 3
        /\ \A k \in Held(runs[i], a) : ~alerts[k].telegram_sent
        /\ Wrote(runs[i], a) = {}

\* C7: a run that takes place more than six hours after the newest alert row of a
\* product it finds eligible writes a new row for it.
C7_AlertedAgainAfterWindow ==
    \A i \in Finished : \A a \in DOMAIN runs[i].eligible :
        /\ Held(runs[i], a) # {}
        /\ \A k \in Held(runs[i], a) : runs[i].started > alerts[k].sent_at + DedupHours
        => Wrote(runs[i], a) # {}

\* a run nine hours after the only alert of a product has written a second row
C7_Witness ==
    \E i \in Finished : \E a \in DOMAIN runs[i].eligible :
        /\ Held(runs[i], a) # {}
        /\ \A k \in Held(runs[i], a) : runs[i].started = alerts[k].sent_at + 9
        /\ Wrote(runs[i], a) # {}

\* C8 as stated: a run that examines a product six hours or less after an alert row
\* of it (exactly six hours included) writes no row.
C8_EdgeIsInsideWindow ==
    \A i \in Finished : \A a \in DOMAIN runs[i].eligible :
        (\E k \in Held(runs[i], a) : runs[i].started - alerts[k].sent_at <= DedupHours)
            => Wrote(runs[i], a) = {}

\* C8: whether a run writes a row for an eligible product is decided by the log
\* alone, and the product counts as alerted recently exactly while now - sent_at < 6
\* hours for some row: a run at exactly sent_at + 6 hours writes a row.
C8_EdgeIsOutsideWindow ==
    \A i \in Finished : \A a \in DOMAIN runs[i].eligible :
        Wrote(runs[i], a) # {}
            <=> (\A k \in Held(runs[i], a) : runs[i].started - alerts[k].sent_at >= DedupHours)

\* a run exactly six hours after an alert of a product has written a new row
C8_Witness ==
    \E i \in Finished : \E a \in DOMAIN runs[i].eligible :
        /\ \E k \in Held(runs[i], a) : runs[i].started - alerts[k].sent_at = DedupHours
        /\ Wrote(runs[i], a) # {}

Applied(c) ==
    [bsr |-> c.cur \notin {None, 0} /\ c.prev \notin {None, 0},
     search |-> c.titled, social |-> c.titled, competition |-> c.filed]

\* C11: the composite score is 0.35 rank + 0.25 search + 0.20 social + 0.20
\* competition, clamped to [0, 100], a sub-score that does not apply or has no data
\* entering as 0 and the weights of the others staying as they are; rank 60,
\* search 0, social 0, competition 80 gives 37.
C11_CompositeIsWeightedSum ==
    call.op = "composite" =>
        LET on == Applied(call)
            sum == 35 * (IF on.bsr THEN call.bsr.score ELSE 0)
                   + 25 * (IF on.search THEN call.search.score ELSE 0)
                   + 20 * (IF on.social THEN call.social.score ELSE 0)
                   + 20 * (IF on.competition THEN call.competition.score ELSE 0)
        IN  /\ call.result.score = (IF sum < 0 THEN 0
                                    ELSE IF sum > 100 * 100 * Scale THEN 100 * 100 * Scale
                                    ELSE sum)
            /\ (/\ on.bsr /\ on.search /\ on.competition
                /\ call.bsr.score = 60 * Scale /\ call.search.score = 0
                /\ call.social.score = 0 /\ call.competition.score = 80 * Scale)
                   => call.result.score = 37 * 100 * Scale

\* a composite call with rank 60, search without data, social without data and
\* competition 80 has returned 37
C11_Witness ==
    /\ call.op = "composite"
    /\ Applied(call).bsr /\ call.titled /\ call.filed
    /\ call.bsr.score = 60 * Scale
    /\ call.search.confidence = "insufficient_data" /\ call.search.score = 0
    /\ call.social.confidence = "no_data" /\ call.social.score = 0
    /\ call.competition.score = 80 * Scale
    /\ call.result.score = 37 * 100 * Scale

\* the tags of the sub-scores a composite call applied
AppliedTags(c) ==
    (IF Applied(c).bsr THEN {<<"bsr", c.bsr.confidence>>} ELSE {})
    \cup (IF c.titled THEN {<<"search", c.search.confidence>>,
                            <<"social", c.social.confidence>>} ELSE {})
    \cup (IF c.filed THEN {<<"competition", c.competition.confidence>>} ELSE {})

\* C12: the overall confidence is high when at least two applied sub-scores are
\* tagged high, else medium when one is tagged high or at least two are tagged
\* medium, else low; no other tag counts.
C12_ConfidenceFromCounts ==
    call.op = "composite" =>
        LET high == Cardinality({x \in AppliedTags(call) : x[2] = "high"})
            medium == Cardinality({x \in AppliedTags(call) : x[2] = "medium"})
        IN  call.result.confidence = (IF high >= 2 THEN "high"
                                      ELSE IF high >= 1 \/ medium >= 2 THEN "medium"
                                      ELSE "low")

\* a composite call with exactly one high tag, next to a declining and a no_data
\* tag, has returned medium
C12_Witness ==
    /\ call.op = "composite"
    /\ Cardinality({x \in AppliedTags(call) : x[2] = "high"}) = 1
    /\ \E x \in AppliedTags(call) : x[2] = "declining"
    /\ \E x \in AppliedTags(call) : x[2] = "no_data"
    /\ call.result.confidence = "medium"

\* a call of one of the four sub-score calculators has returned (not raised)
Returned ==
    /\ call.op \in {"bsr", "search", "social", "competition"}
    /\ call.result.score # None

\* C13 as stated: every calculator returns one of the tags insufficient_data,
\* no_data, low, medium, high.
C13_FiveTags ==
    Returned => call.result.confidence \in {"insufficient_data", "no_data", "low", "medium", "high"}

\* C13: every calculator returns one of the tags insufficient_data, no_data, low,
\* medium, high, declining; the rank calculator returns declining whenever the rank
\* has not improved.
C13_SixTags ==
    /\ Returned => call.result.confidence \in
                      {"insufficient_data", "no_data", "low", "medium", "high", "declining"}
    /\ (/\ call.op = "bsr" /\ call.prev \notin {None, 0} /\ call.cur # None
        /\ call.cur > 0 /\ call.prev <= call.cur)
           => call.result.confidence = "declining"

\* the rank calculator, called with a rank that slid from 1000 to 2000, has
\* returned the tag declining
C13_Witness ==
    /\ call.op = "bsr" /\ call.prev = 1000 /\ call.cur = 2000
    /\ call.result.confidence = "declining"

\* C14: every score a calculator returns is in [0, 100] (ranks of any sign, elapsed
\* hours positive, any volumes, sentiments in [0, 1], any count).
C14_SubScoreRange ==
    Returned /\ (call.op = "bsr" => call.hours > 0)
        => 0 <= call.result.score /\ call.result.score <= 100 * Scale

\* the rank calculator has returned the top of the range, 100, for a climb of
\* 57000 ranks in an hour (70 + 10 log10 57000 is above 100)
C14_Witness ==
    /\ call.op = "bsr" /\ call.hours = 1 /\ call.prev - call.cur = 57000
    /\ call.result.score = 100 * Scale

\* C15: with no previous rank the rank calculator returns (0, insufficient_data)
\* whatever the current rank is (NULL included), and a composite call on such a
\* product returns a score and a confidence, the rank sub-score not applied.
C15_NoPreviousRank ==
    /\ (call.op = "bsr" /\ call.prev = None)
           => call.result = [score |-> 0, confidence |-> "insufficient_data"]
    /\ (call.op = "composite" /\ call.prev = None)
           => /\ call.result.score # None
              /\ call.result.confidence \in {"low", "medium", "high"}
              /\ ~Applied(call).bsr

\* the rank calculator was called with neither rank set and has returned
\* (0, insufficient_data)
C15_Witness ==
    /\ call.op = "bsr" /\ call.prev = None /\ call.cur = None
    /\ call.result = [score |-> 0, confidence |-> "insufficient_data"]

\* the search observations of a keyword inside the 30 days before now
Observed(kw) ==
    {k \in DOMAIN trend : /\ trend[k].keyword = kw
                          /\ trend[k].platform = "google_trends"
                          /\ trend[k].timestamp > now - 30 * 24}

\* the social records of a keyword inside the 7 days before now
Mentioned(kw) ==
    {k \in DOMAIN trend : /\ trend[k].keyword = kw
                          /\ trend[k].platform \in {"reddit", "tiktok"}
                          /\ trend[k].timestamp > now - 7 * 24}

\* the sub-scores of a stored product, a sub-score that lacks data replaced by
\* (0, tag), as <<weight, applied, result>>
PartsLackingAsZero(p) ==
    LET kw == Keyword(p.title)
    IN  << <<35, TruthyInt(p.bsr_current) /\ TruthyInt(p.bsr_previous),
             BsrVelocityScore(p.bsr_current, p.bsr_previous, DefaultHours)>>,
           <<25, TruthyTitle(p.title),
             IF Cardinality(Observed(kw)) < 2
             THEN [score |-> 0, confidence |-> "insufficient_data"]
             ELSE SearchAccelerationScore(kw, trend, now)>>,
           <<20, TruthyTitle(p.title),
             IF Mentioned(kw) = {}
             THEN [score |-> 0, confidence |-> "no_data"]
             ELSE SocialBuzzScore(kw, trend, now)>>,
           <<20, TruthyCategory(p.category), CompetitionScore(p.category, products, now)>> >>

\* C16: a product whose keyword has fewer than two search observations in the 30
\* days, or no social record in the 7 days, is scored all the same: that sub-score
\* enters the composite as 0 and its tag (insufficient_data, no_data) counts
\* neither as high nor as medium.
C16_LackingDataScoresZero ==
    \A a \in DOMAIN products :
        products[a].momentum_score # None =>
            LET parts == PartsLackingAsZero(products[a])
                on == {k \in 1..4 : parts[k][2]}
                sum == (IF 1 \in on THEN 35 * parts[1][3].score ELSE 0)
                       + (IF 2 \in on THEN 25 * parts[2][3].score ELSE 0)
                       + (IF 3 \in on THEN 20 * parts[3][3].score ELSE 0)
                       + (IF 4 \in on THEN 20 * parts[4][3].score ELSE 0)
                high == Cardinality({k \in on : parts[k][3].confidence = "high"})
                medium == Cardinality({k \in on : parts[k][3].confidence = "medium"})
            IN  /\ products[a].momentum_score = (IF sum > 100 * 100 * Scale
                                                 THEN 100 * 100 * Scale ELSE sum)
                /\ products[a].confidence_level =
                      (IF high >= 2 THEN "high"
                       ELSE IF high >= 1 \/ medium >= 2 THEN "medium" ELSE "low")

\* a product is scored whose keyword has one search observation inside the 30 days
\* (and one outside) and no social record, with a rank sub-score above 0
C16_Witness ==
    \E a \in DOMAIN products :
        /\ products[a].momentum_score # None
        /\ products[a].momentum_score > 0
        /\ TruthyTitle(products[a].title)
        /\ Cardinality(Observed(Keyword(products[a].title))) = 1
        /\ \E k \in DOMAIN trend : /\ trend[k].keyword = Keyword(products[a].title)
                                   /\ trend[k].timestamp <= now - 30 * 24
        /\ Mentioned(Keyword(products[a].title)) = {}

\* C17: for previous > current > 0 the rank calculator follows the tiers of
\* velocity = (previous - current) / hours: at most 1 gives (max(0, 20 v), low),
\* (1, 10] gives (min(60, 20 + 10 v), low), (10, 100] gives (min(80, 40 + 2 v),
\* medium), above 100 gives high; 1000 -> 900 in 24 hours gives (60, low).
C17_RankTiers ==
    (/\ call.op = "bsr" /\ call.prev # None /\ call.cur # None
     /\ call.prev > call.cur /\ call.cur > 0 /\ call.hours > 0)
        => LET v == ((call.prev - call.cur) * Scale) \div call.hours
               Least(x, y) == IF x <= y THEN x ELSE y
           IN  /\ v <= Scale
                     => call.result = [score |-> 20 * v, confidence |-> "low"]
               /\ (Scale < v /\ v <= 10 * Scale)
                     => call.result = [score |-> Least(60 * Scale, 20 * Scale + 10 * v),
                                       confidence |-> "low"]
               /\ (10 * Scale < v /\ v <= 100 * Scale)
                     => call.result = [score |-> Least(80 * Scale, 40 * Scale + 2 * v),
                                       confidence |-> "medium"]
               /\ v > 100 * Scale => call.result.confidence = "high"
               /\ (call.prev = 1000 /\ call.cur = 900 /\ call.hours = 24)
                     => call.result = [score |-> 60 * Scale, confidence |-> "low"]

\* the rank calculator, called with 1000 -> 900 in 24 hours, has returned (60, low)
C17_Witness ==
    /\ call.op = "bsr" /\ call.prev = 1000 /\ call.cur = 900 /\ call.hours = 24
    /\ call.result = [score |-> 60 * Scale, confidence |-> "low"]

\* C18: for n new products the competition calculator returns (min(100, 70 + 0.5 n),
\* high) for n > 50, (min(80, 40 + 1.5 n), medium) for 20 < n <= 50,
\* (min(60, 20 + 3 n), low) for 5 < n <= 20 and (max(0, 10 n), low) otherwise;
\* n = 30 gives (80, medium).
C18_CompetitionTiers ==
    call.op = "competition" =>
        LET n == call.n
            Least(x, y) == IF x <= y THEN x ELSE y
        IN  /\ n > 50 => call.result = [score |-> Least(100 * Scale, 70 * Scale + (n * Scale) \div 2),
                                        confidence |-> "high"]
            /\ (20 < n /\ n <= 50)
                  => call.result = [score |-> Least(80 * Scale, 40 * Scale + (3 * n * Scale) \div 2),
                                    confidence |-> "medium"]
            /\ (5 < n /\ n <= 20)
                  => call.result = [score |-> Least(60 * Scale, 20 * Scale + 3 * n * Scale),
                                    confidence |-> "low"]
            /\ n <= 5 => call.result = [score |-> 10 * n * Scale, confidence |-> "low"]
            /\ n = 30 => call.result = [score |-> 80 * Scale, confidence |-> "medium"]

\* the competition calculator, called for 30 new products, has returned
\* (80, medium)
C18_Witness ==
    /\ call.op = "competition" /\ call.n = 30
    /\ call.result = [score |-> 80 * Scale, confidence |-> "medium"]

\* two digests were built one after the other on the store as it stands
TwoBuilds == call.op = "digest" /\ call.earlier # NoCall

\* the same rows of the store lie within the 24 hours before t and before u
SameDay(t, u) ==
    /\ \A a \in DOMAIN products :
          (products[a].last_updated > t - 24) <=> (products[a].last_updated > u - 24)
    /\ \A j \in DOMAIN trend :
          (trend[j].timestamp > t - 24) <=> (trend[j].timestamp > u - 24)

\* the lines of a digest above its last one
Lists(message) == [products |-> message.products, searches |-> message.searches]

Rising(d, t, hours) ==
    d.platform = "google_trends" /\ d.velocity_score > 0 /\ d.timestamp > t - hours

\* what trending_kw_list holds of a row
Entry(d) == [keyword |-> d.keyword, velocity |-> d.velocity_score, volume |-> d.volume_score]

\* the rows rising within the hours before t, and those among them that come
\* before row j by velocity
RisingRows(t, hours) == {m \in DOMAIN trend : Rising(trend[m], t, hours)}

Outranking(j, t, hours) ==
    {m \in RisingRows(t, hours) \ {j} : trend[m].velocity_score >= trend[j].velocity_score}

\* C20 as stated: a search-trend row of positive velocity from the last 7 days is
\* in the keyword list of the digest when fewer than 10 such rows outrank it.
C20_KeywordsOfLastWeek ==
    call.op = "digest" =>
        \A j \in RisingRows(call.at, 7 * 24) :
            Cardinality(Outranking(j, call.at, 7 * 24)) < 10
                => \E i \in DOMAIN call.trending_keywords :
                      call.trending_keywords[i] = Entry(trend[j])

\* C20, amended: the keyword list of the digest consists of up to 10 search-trend
\* rows of positive velocity from the last 24 hours, in descending order of
\* velocity; such a row is in the list when fewer than 10 outrank it.
C20_KeywordsOfLastDay ==
    call.op = "digest" =>
        LET kws == call.trending_keywords
            t == call.at
        IN  /\ Len(kws) = Min(10, Cardinality(RisingRows(t, 24)))
            /\ \A i \in DOMAIN kws :
                  \E j \in RisingRows(t, 24) : kws[i] = Entry(trend[j])
            /\ \A i \in 1..(Len(kws) - 1) : kws[i].velocity >= kws[i + 1].velocity
            /\ \A j \in RisingRows(t, 24) :
                  Cardinality(Outranking(j, t, 24)) < 10
                      => \E i \in DOMAIN kws : kws[i] = Entry(trend[j])

\* a digest was built whose keyword list holds fewer than 10 rows and leaves out a
\* search-trend row of positive velocity that is 2 to 7 days old
C20_Witness ==
    /\ call.op = "digest"
    /\ Len(call.trending_keywords) \in 1..9
    /\ \E j \in DOMAIN trend :
          /\ Rising(trend[j], call.at, 7 * 24)
          /\ trend[j].timestamp <= call.at - 2 * 24
          /\ \A i \in DOMAIN call.trending_keywords :
                call.trending_keywords[i] # Entry(trend[j])

\* the products updated within the 24 hours before t with a score above 40
Qualifying(t) ==
    {a \in DOMAIN products : /\ products[a].last_updated > t - 24
                             /\ products[a].momentum_score # None
                             /\ products[a].momentum_score > 40 * 100 * Scale}

\* C21: the item list of the digest holds at most 10 items, each updated within
\* the last 24 hours and scored above 40, in descending order of score, and no
\* qualifying item scored higher than a selected one is left out.
C21_ItemsOfLastDay ==
    call.op = "digest" =>
        LET top == call.top_products
            picked == {top[i].asin : i \in DOMAIN top}
        IN  /\ Len(top) <= 10
            /\ Cardinality(picked) = Len(top)
            /\ \A i \in DOMAIN top :
                  top[i].asin \in Qualifying(call.at) /\ top[i] = products[top[i].asin]
            /\ \A i \in 1..(Len(top) - 1) : top[i].momentum_score >= top[i + 1].momentum_score
            /\ \A a \in Qualifying(call.at) \ picked :
                  /\ Len(top) = 10
                  /\ \A i \in DOMAIN top : products[a].momentum_score <= top[i].momentum_score

\* a digest was built whose item list holds 10 items and leaves out a qualifying
\* item, and one updated too long ago, and one scored too low
C21_Witness ==
    /\ call.op = "digest"
    /\ Len(call.top_products) = 10
    /\ \E a \in Qualifying(call.at) : \A i \in 1..10 : call.top_products[i].asin # a
    /\ \E a \in DOMAIN products : products[a].last_updated <= call.at - 24
    /\ \E a \in DOMAIN products : products[a].momentum_score <= 40 * 100 * Scale

\* the first n entries of a list
FirstOf(list, n) == [i \in 1..(IF Len(list) < n THEN Len(list) ELSE n) |-> list[i]]

\* the digest lists the first min(5, length) entries of both selected lists, in
\* list order: entry i on line i, a product with the first 40 characters of its
\* title and its score to one decimal, a keyword with its velocity to one decimal
FirstFiveListed ==
    LET top == call.top_products
        kws == call.trending_keywords
        m == call.message
    IN  /\ DOMAIN m.products = DOMAIN FirstOf(top, 5)
        /\ DOMAIN m.searches = DOMAIN FirstOf(kws, 5)
        /\ \A i \in DOMAIN m.products :
              LET text == TitleText(top[i].title)
                  line == m.products[i]
              IN  /\ line.i = i
                  /\ Len(line.title) = (IF Len(text) < 40 THEN Len(text) ELSE 40)
                  /\ line.title = (IF Len(text) = 0 THEN "" ELSE SubSeq(text, 1, Len(line.title)))
                  /\ 2 * Abs(10 * top[i].momentum_score - line.momentum_score * 100 * Scale)
                        <= 100 * Scale
        /\ \A i \in DOMAIN m.searches :
              /\ m.searches[i].i = i
              /\ m.searches[i].keyword = kws[i].keyword
              /\ m.searches[i].velocity = 10 * kws[i].velocity

\* C22 as stated: the digest lists the first min(5, length) entries of each
\* selected list and reports how many selected entries lie beyond the fifth, so a
\* digest of more than five entries is not the digest of its first five alone.
C22_RestIsCounted ==
    call.op = "digest" =>
        /\ FirstFiveListed
        /\ Len(call.top_products) > 5
              => call.message # FormatTrendsDigest(FirstOf(call.top_products, 5),
                                                   call.trending_keywords, call.at)
        /\ Len(call.trending_keywords) > 5
              => call.message # FormatTrendsDigest(call.top_products,
                                                   FirstOf(call.trending_keywords, 5), call.at)

\* C22, amended: the digest lists the first min(5, length) entries of each
\* selected list, in list order, and says nothing of the entries beyond the fifth:
\* it is the digest of the first five entries of each list alone.
C22_RestIsLeftOut ==
    call.op = "digest" =>
        /\ FirstFiveListed
        /\ call.message = FormatTrendsDigest(FirstOf(call.top_products, 5),
                                             FirstOf(call.trending_keywords, 5), call.at)
        /\ DOMAIN call.message = {"products", "searches", "generated_at"}

\* a digest was built from 10 selected products and 10 selected keywords and
\* lists five of each
C22_Witness ==
    /\ call.op = "digest"
    /\ Len(call.top_products) = 10 /\ Len(call.trending_keywords) = 10
    /\ Len(call.message.products) = 5 /\ Len(call.message.searches) = 5
    /\ call.message.products[5].title = TitleText(call.top_products[5].title)

\* C23: a digest build writes nothing: the step that builds a digest, delivered or
\* not, leaves products, trend rows and alert rows as they are, and leaves every
\* alert-check run, also one suspended at its await, where it is, so the rows that
\* run goes on to write are those it would have written.
C23_DigestWritesNothing ==
    [][call' # call
          => /\ call'.op = "digest"
             /\ call'.result \in BOOLEAN
             /\ UNCHANGED <<products, trend, alerts, runs>>]_vars

\* a digest was built while an alert check was suspended at its await, and the
\* check has since written its alert row and returned
C23_Witness ==
    /\ call.op = "digest"
    /\ call.overlapped # {}
    /\ call.result = FALSE
    /\ Len(alerts) > call.logged
    /\ \A i \in call.overlapped : runs[i].pc = "idle"

\* the columns of a product a scoring update does not write
Kept(p) ==
    [asin |-> p.asin, title |-> p.title, category |-> p.category, price |-> p.price,
     bsr_current |-> p.bsr_current, bsr_previous |-> p.bsr_previous,
     first_seen |-> p.first_seen]

\* C24: a scoring update changes momentum_score, confidence_level, is_trending and
\* last_updated only: every step keeps the set of products and each product's
\* asin, category, ranks and first_seen; a step that changes a product writes no
\* alert row and no trend row; and a step of an alert check changes no product.
C24_ScoringWritesScoresOnly ==
    [][/\ DOMAIN products' = DOMAIN products
       /\ \A a \in DOMAIN products : Kept(products'[a]) = Kept(products[a])
       /\ products' # products => alerts' = alerts /\ trend' = trend /\ runs' = runs
       /\ (alerts' # alerts \/ runs' # runs) => products' = products]_vars

\* a product was alerted on a score of more than 60 and has since been scored
\* again, to a lower score, its ranks as they were
C24_Witness ==
    \E k \in DOMAIN alerts :
        LET p == products[alerts[k].product_asin]
        IN  /\ alerts[k].momentum_score > 60 * 100 * Scale
            /\ p.momentum_score < alerts[k].momentum_score
            /\ ~p.is_trending
            /\ p.bsr_current = 100 /\ p.bsr_previous = 20100

\* every product carries the scores of a scoring run
Scored == \A a \in DOMAIN products : products[a].momentum_score # None

\* the time of the last scoring run
LastRun == products[Catalog[1].asin].last_updated

\* what a scoring run leaves in a product, but for last_updated
Scores(p) ==
    [momentum_score |-> p.momentum_score, confidence_level |-> p.confidence_level,
     is_trending |-> p.is_trending]

\* the same rows lie within the windows of the sub-score queries at t and at u:
\* trend rows within 30 and within 7 days, products first seen within 30 days
SameWindows(t, u) ==
    /\ \A j \in DOMAIN trend :
          /\ (trend[j].timestamp > t - 30 * 24) <=> (trend[j].timestamp > u - 30 * 24)
          /\ (trend[j].timestamp > t - 7 * 24) <=> (trend[j].timestamp > u - 7 * 24)
    /\ \A a \in DOMAIN products :
          (products[a].first_seen > t - 30 * 24) <=> (products[a].first_seen > u - 30 * 24)

\* C25 as stated: a scoring run that follows a scoring run, with no change to
\* trend rows, ranks or the set of products in between, leaves every product's
\* score, confidence and trending flag as they were.
C25_SecondRunChangesNothing ==
    [][(Scored /\ now' = now)
          => \A a \in DOMAIN products : Scores(products'[a]) = Scores(products[a])]_vars

\* C25, amended: a scoring run that follows a scoring run, with no change to
\* trend rows, ranks or the set of products in between, leaves every product's
\* score, confidence and trending flag as they were when the same rows lie within
\* the 30-day and 7-day windows at both runs; last_updated is that of the second.
C25_SecondRunInSameWindows ==
    [][(Scored /\ now' = now /\ SameWindows(LastRun, now))
          => /\ \A a \in DOMAIN products : Scores(products'[a]) = Scores(products[a])
             /\ \A a \in DOMAIN products : products'[a].last_updated = now]_vars

\* the store was scored at boot and again three hours later, the same rows within
\* the windows, and carries the scores of the first run
C25_Witness ==
    /\ Scored
    /\ LastRun = 3
    /\ SameWindows(0, 3)
    /\ \E a \in DOMAIN products : products[a].momentum_score > 0
    /\ \A a \in DOMAIN products :
          Scores(products[a]) = Scores(Rescored(products[a], Composite(products[a], products, trend, 0), 0))

\* C26 as stated: every alert row stores a score of at least the momentum
\* threshold and a confidence of medium or high, under every interleaving of a
\* scoring run with an alert check, also when the scoring run lowers a product
\* while the check is suspended on the delivery of an earlier product's alert.
C26_RowsAboveThreshold ==
    \A k \in DOMAIN alerts :
        /\ alerts[k].momentum_score >= 60 * 100 * Scale
        /\ alerts[k].confidence \in {"medium", "high"}

\* a stored product without usable rank data: its previous or its current rank
\* is absent
Unranked(p) == p.bsr_previous = None \/ p.bsr_current = None

\* C27: a product whose previous or current rank is absent is never trending and
\* never alerted: whenever it is scored its score is at most 59 (25 from search,
\* 14 from social and 20 from competition), so its flag is false and no alert
\* check writes an alert row for it, whatever the jobs do in whatever order.
C27_UnrankedNeverAlerted ==
    \A a \in DOMAIN products :
        Unranked(products[a]) =>
            /\ products[a].momentum_score <= 59 * 100 * Scale
            /\ ~products[a].is_trending
            /\ \A k \in DOMAIN alerts : alerts[k].product_asin # a
            /\ \A i \in Instances : runs[i].pc # "idle" => a \notin DOMAIN runs[i].eligible

\* a product without a previous rank has been scored above zero, and an alert
\* check has written a row for the other product and none for it
C27_Witness ==
    \E a \in DOMAIN products :
        /\ Unranked(products[a])
        /\ products[a].momentum_score > 0
        /\ alerts # <<>>
        /\ \E i \in Instances : runs[i].pc = "returning"

\* a call of the rank calculator on two ranks above zero and a positive elapsed
\* time
RankedCall == call.op = "bsr" /\ call.cur > 0 /\ call.prev > 0 /\ call.hours > 0

\* C28 as stated: for a fixed previous rank and elapsed time the rank score is
\* monotone in the rank change: a current rank that improved at least as much
\* scores at least as much, so an improved rank never scores lower than a flat or
\* a worsened one.
C28_MonotoneInRankChange ==
    RankedCall =>
        \A b \in {r \in CurrentRanks : r > 0} :
            call.prev - call.cur >= call.prev - b
                => call.result.score >= BsrVelocityScore(b, call.prev, call.hours).score

\* C29 as stated: the competition score never decreases as the number of new
\* products in the category grows, also across the tier edges at 5, 20 and 50.
C29_MonotoneInNewProducts ==
    call.op = "competition" =>
        \A n \in 0..call.n : CompetitionScoreOf(n).score <= call.result.score

\* the products whose handling raised in the run
Failed(run) == {run.errors[k] : k \in DOMAIN run.errors}

\* the log held no row of product a inside the dedup window when the run started
Quiet(run, a) ==
    \A k \in Held(run, a) : alerts[k].sent_at <= run.started - DedupHours

\* C30: an exception raised while one eligible product is handled (its message
\* cannot be rendered) is caught for that product alone: the run goes on, every
\* other eligible product without an alert inside the window still gets its alert
\* row, and the run returns; the product that raised gets no row.
C30_ExceptionCaughtPerProduct ==
    \A i \in Instances :
        /\ \A a \in Failed(runs[i]) :
              a \in DOMAIN runs[i].eligible /\ Wrote(runs[i], a) = {}
        /\ i \in Finished =>
              \A a \in DOMAIN runs[i].eligible \ Failed(runs[i]) :
                  Quiet(runs[i], a) => Wrote(runs[i], a) # {}

\* a run has returned in which the first eligible product raised and the second
\* one got its alert row
C30_Witness ==
    \E i \in Finished : \E a, b \in DOMAIN runs[i].eligible :
        /\ a \in Failed(runs[i])
        /\ b \notin Failed(runs[i])
        /\ Quiet(runs[i], b)
        /\ Wrote(runs[i], b) # {}

====
